---- MODULE Spec2Model ----
(***************************************************************************)
(* A model of the bevy_jfa outline pipeline: the OutlineResources that     *)
(* own the mask and seed textures and their bind groups, the per-frame     *)
(* recreate_outline_resources system, the outline sub-graph whose nodes    *)
(* record render passes, and the execution of those passes on texture      *)
(* contents.                                                               *)
(***************************************************************************)
EXTENDS Integers, Naturals, Sequences, FiniteSets, TLC

VARIABLES
    res,        \* OutlineResources
    cache,      \* TextureCache: entries in insertion order
    next_id,    \* next fresh texture id handed out by the render device
    window,     \* ExtractedWindows.get(primary): None or <<width, height>>
    ready,      \* pipelines the PipelineCache has finished compiling
    stage,      \* position in the frame: "prepare", "graph", "submitted"
    run_order,  \* nodes of the outline sub-graph already run, in order
    slots,      \* output slot values set by the nodes that have run
    encoder,    \* render passes recorded in the frame's command encoder
    gpu_pc,     \* number of recorded passes the GPU has executed
    tex,        \* texture contents: texture id -> [pixel -> value]
    outline_node, \* Option<OutlineNode> built by graph::outline
    calls,      \* windows of the last two recreate_outline_resources calls
    color,      \* the camera's colour target around this frame's composite
    requested_format, \* the colour-target format given to graph::outline
    created     \* bind groups the last recreate_outline_resources call built

vars == <<res, cache, next_id, window, ready, stage, run_order, slots,
          encoder, gpu_pc, tex, outline_node, calls, color, requested_format,
          created>>

\* Option::None of the primary window lookup (a size is a pair).
None == <<>>

-----------------------------------------------------------------------------
(* Bounds of the model.                                                    *)

\* Texture ids the render device may hand out in one run.
MaxTextureIds == 16

\* Window sizes delivered by ExtractedWindows (physical_width, physical_height).
WindowSizes == {<<1, 1>>, <<2, 3>>, <<512, 300>>, <<513, 2>>}

-----------------------------------------------------------------------------
(* Small helpers.                                                          *)

Min(S) == CHOOSE x \in S : \A y \in S : x <= y

Max2(a, b) == IF a >= b THEN a ELSE b

RECURSIVE Pow2(_)
Pow2(n) == IF n = 0 THEN 1 ELSE 2 * Pow2(n - 1)

\* u32 -> f32 conversion (`as f32`): exact up to 2^24, then round to nearest
\* even mantissa (valid below 2^25).
AsF32(n) ==
    IF n <= 16777216 THEN n
    ELSE IF n % 2 = 0 THEN n
    ELSE IF (n + 1) % 4 = 0 THEN n + 1 ELSE n - 1

-----------------------------------------------------------------------------
(* Textures and the texture cache.                                         *)

JFA_TEXTURE_FORMAT == "Rg16Snorm"

\* Variant of tex_desc: every texture is created with 4 samples.
tex_desc_multisampled(label, size, format) ==
    [label |-> label, width |-> size[1], height |-> size[2],
     sample_count |-> 4, format |-> format]

tex_desc(label, size, format) ==
    [label |-> label, width |-> size[1], height |-> size[2],
     sample_count |-> 1, format |-> format]

\* Variant of TextureCacheGet: a texture is created on every call.
TextureCacheGetNew(c, nid, desc) ==
    [texture |-> [id |-> nid, desc |-> desc],
     cache   |-> Append(c, [desc |-> desc, id |-> nid,
                            taken |-> TRUE, frames |-> 0]),
     next_id |-> nid + 1]

\* TextureCache::get: hand out the first cached texture of this descriptor
\* that was not taken this frame, or create a new one.
TextureCacheGet(c, nid, desc) ==
    LET free == {i \in DOMAIN c : c[i].desc = desc /\ ~c[i].taken}
    IN  IF free # {}
        THEN LET i == Min(free)
             IN  [texture |-> [id |-> c[i].id, desc |-> desc],
                  cache   |-> [c EXCEPT ![i] = [@ EXCEPT !.taken = TRUE,
                                                         !.frames = 0]],
                  next_id |-> nid]
        ELSE [texture |-> [id |-> nid, desc |-> desc],
              cache   |-> Append(c, [desc |-> desc, id |-> nid,
                                     taken |-> TRUE, frames |-> 0]),
              next_id |-> nid + 1]

\* TextureCache::update, run in the Cleanup stage of every frame.
TextureCacheUpdate(c) ==
    LET aged == [i \in DOMAIN c |->
                    [c[i] EXCEPT !.frames = @ + 1, !.taken = FALSE]]
        keep(e) == e.frames < 3
    IN  SelectSeq(aged, keep)

-----------------------------------------------------------------------------
(* OutlineResources.                                                       *)

\* jfa::Dimensions::new
DimensionsNew(width, height) ==
    [width |-> AsF32(width), height |-> AsF32(height),
     inv_width |-> <<1, AsF32(width)>>, inv_height |-> <<1, AsF32(height)>>]

\* create_jfa_bind_group: the texture view bound at binding 1.
create_jfa_bind_group(label, input) ==
    [label |-> label, input |-> input.id]

\* create_outline_src_bind_group: the texture view bound at binding 0.
create_outline_src_bind_group(label, target) ==
    [label |-> label, input |-> target.id]

\* The dynamic uniform buffer of jump distances: entry exp holds 2^exp, and
\* jfa_distance_offsets[exp] is the offset push() returned for it.
DistanceStride == 256

jfa_distance_offsets_init == [i \in 1..16 |-> DistanceStride * (i - 1)]

jfa_distance_buffer_init ==
    [ofs \in {DistanceStride * e : e \in 0..15} |->
        [dist |-> Pow2(ofs \div DistanceStride)]]

\* OutlineResources::from_world: every texture is created at 1x1.
FromWorld ==
    LET size == <<1, 1>>
        mask_output_desc == tex_desc("outline_mask_output", size, "R8Unorm")
        mask_multisample_desc ==
            [mask_output_desc EXCEPT !.label = "outline_mask_multisample",
                                     !.sample_count = 4]
        g1 == TextureCacheGet(<<>>, 1, mask_multisample_desc)
        g2 == TextureCacheGet(g1.cache, g1.next_id, mask_output_desc)
        g3 == TextureCacheGet(g2.cache, g2.next_id,
                 tex_desc("outline_jfa_primary_output", size, JFA_TEXTURE_FORMAT))
        g4 == TextureCacheGet(g3.cache, g3.next_id,
                 tex_desc("outline_jfa_secondary_output", size, JFA_TEXTURE_FORMAT))
    IN  [res |->
            [mask_multisample |-> g1.texture,
             mask_output |-> g2.texture,
             dimensions_buffer |-> DimensionsNew(size[1], size[2]),
             jfa_init_bind_group |->
                 [label |-> "outline_jfa_init_bind_group",
                  input |-> g2.texture.id],
             jfa_distance_buffer |-> jfa_distance_buffer_init,
             jfa_distance_offsets |-> jfa_distance_offsets_init,
             jfa_primary_bind_group |->
                 create_jfa_bind_group("outline_jfa_primary_bind_group",
                                       g4.texture),
             jfa_primary_output |-> g3.texture,
             jfa_secondary_bind_group |->
                 create_jfa_bind_group("outline_jfa_secondary_bind_group",
                                       g3.texture),
             jfa_secondary_output |-> g4.texture,
             primary_outline_bind_group |->
                 create_outline_src_bind_group(
                     "jfa_primary_outline_src_bind_group", g3.texture),
             secondary_outline_bind_group |->
                 create_outline_src_bind_group(
                     "jfa_secondary_outline_src_bind_group", g4.texture)],
         cache |-> g4.cache,
         next_id |-> g4.next_id]

\* recreate_outline_resources for a present primary window of this size.
RecreateFor(r, c, nid, size) ==
    LET new_dims == DimensionsNew(size[1], size[2])
        r0 == IF r.dimensions_buffer # new_dims
              THEN [r EXCEPT !.dimensions_buffer = new_dims]
              ELSE r
        old_mask == r0.mask_multisample.id
        mask_output_desc == tex_desc("outline_mask_output", size, "R8Unorm")
        mask_multisample_desc ==
            [mask_output_desc EXCEPT !.label = "outline_mask_multisample",
                                     !.sample_count = 4]
        g1 == TextureCacheGet(c, nid, mask_output_desc)
        g2 == TextureCacheGet(g1.cache, g1.next_id, mask_multisample_desc)
        r1 == [r0 EXCEPT !.mask_output = g1.texture,
                         !.mask_multisample = g2.texture]
        init_rebuilt == r1.mask_output.id # old_mask
        r2 == IF init_rebuilt
              THEN [r1 EXCEPT !.jfa_init_bind_group =
                        [label |-> "outline_jfa_init_bind_group",
                         input |-> r1.mask_output.id]]
              ELSE r1
        old_jfa_primary == r2.jfa_primary_output.id
        g3 == TextureCacheGet(g2.cache, g2.next_id,
                 tex_desc("outline_jfa_primary_output", size, JFA_TEXTURE_FORMAT))
        primary_replaced == g3.texture.id # old_jfa_primary
        r3 == IF primary_replaced
              THEN [r2 EXCEPT
                      !.jfa_primary_output = g3.texture,
                      !.jfa_secondary_bind_group =
                          create_jfa_bind_group(
                              "outline_jfa_secondary_bind_group", g3.texture),
                      !.primary_outline_bind_group =
                          create_outline_src_bind_group(
                              "jfa_primary_outline_bind_group", g3.texture)]
              ELSE r2
        old_jfa_secondary == r3.jfa_secondary_output.id
        g4 == TextureCacheGet(g3.cache, g3.next_id,
                 tex_desc("outline_jfa_secondary_output", size, JFA_TEXTURE_FORMAT))
        secondary_replaced == g4.texture.id # old_jfa_secondary
        r4 == IF secondary_replaced
              THEN [r3 EXCEPT
                      !.jfa_secondary_output = g4.texture,
                      !.jfa_primary_bind_group =
                          create_jfa_bind_group(
                              "outline_jfa_primary_bind_group", g4.texture),
                      !.secondary_outline_bind_group =
                          create_outline_src_bind_group(
                              "jfa_secondary_outline_bind_group", g4.texture)]
              ELSE r3
    IN  [res |-> r4, cache |-> g4.cache, next_id |-> g4.next_id,
         created |->
             (IF init_rebuilt THEN {"jfa_init_bind_group"} ELSE {}) \cup
             (IF primary_replaced
              THEN {"jfa_secondary_bind_group", "primary_outline_bind_group"}
              ELSE {}) \cup
             (IF secondary_replaced
              THEN {"jfa_primary_bind_group", "secondary_outline_bind_group"}
              ELSE {})]

\* Variant of recreate_outline_resources: the Dimensions uniform is left as
\* it was.
recreate_keeping_dimensions(r, c, nid, w) ==
    IF w = None
    THEN [res |-> r, cache |-> c, next_id |-> nid, created |-> {}]
    ELSE [RecreateFor(r, c, nid, w) EXCEPT
             !.res.dimensions_buffer = r.dimensions_buffer]

\* Variant of recreate_outline_resources: the bind group sampling the
\* secondary output is not rebuilt when that texture is replaced.
recreate_keeping_primary_bind_group(r, c, nid, w) ==
    IF w = None
    THEN [res |-> r, cache |-> c, next_id |-> nid, created |-> {}]
    ELSE [RecreateFor(r, c, nid, w) EXCEPT
             !.res.jfa_primary_bind_group = r.jfa_primary_bind_group]

\* Variant of recreate_outline_resources: without a primary window the
\* resources are recreated at the 1x1 size of from_world.
recreate_defaulting_size(r, c, nid, w) ==
    IF w = None
    THEN RecreateFor(r, c, nid, <<1, 1>>)
    ELSE RecreateFor(r, c, nid, w)

\* recreate_outline_resources: returns early when there is no primary window.
recreate_outline_resources(r, c, nid, w) ==
    IF w = None
    THEN [res |-> r, cache |-> c, next_id |-> nid, created |-> {}]
    ELSE RecreateFor(r, c, nid, w)

-----------------------------------------------------------------------------
(* The outline sub-graph (graph::outline).                                 *)

MASK_PASS == "mask_pass"
JFA_INIT_PASS == "jfa_init_pass"
JFA_PASS == "jfa_pass"
OUTLINE_PASS == "outline_pass"
GraphInput == "graph_input"

Nodes == {MASK_PASS, JFA_INIT_PASS, JFA_PASS, OUTLINE_PASS}

\* Variant of SlotEdges without the edge JFA Init -> JFA.
SlotEdgesNoInitToJfa ==
    { [from |-> GraphInput,    out |-> "view_entity",  to |-> MASK_PASS,     in |-> "view"],
      [from |-> MASK_PASS,     out |-> "stencil",      to |-> JFA_INIT_PASS, in |-> "in_mask"],
      [from |-> GraphInput,    out |-> "view_entity",  to |-> JFA_PASS,      in |-> "in_view"],
      [from |-> GraphInput,    out |-> "view_entity",  to |-> OUTLINE_PASS,  in |-> "in_view"],
      [from |-> JFA_PASS,      out |-> "out_jump",     to |-> OUTLINE_PASS,  in |-> "in_jfa"] }

\* The slot edges added by graph::outline, in source order.
SlotEdges ==
    { [from |-> GraphInput,    out |-> "view_entity",  to |-> MASK_PASS,     in |-> "view"],
      [from |-> MASK_PASS,     out |-> "stencil",      to |-> JFA_INIT_PASS, in |-> "in_mask"],
      [from |-> GraphInput,    out |-> "view_entity",  to |-> JFA_PASS,      in |-> "in_view"],
      [from |-> JFA_INIT_PASS, out |-> "out_jfa_init", to |-> JFA_PASS,      in |-> "in_base"],
      [from |-> GraphInput,    out |-> "view_entity",  to |-> OUTLINE_PASS,  in |-> "in_view"],
      [from |-> JFA_PASS,      out |-> "out_jump",     to |-> OUTLINE_PASS,  in |-> "in_jfa"] }

Ran == {run_order[i] : i \in DOMAIN run_order}

\* The graph runner runs a node once, after every node feeding one of its
\* input slots has produced its outputs.
CanRun(n) ==
    /\ stage = "graph"
    /\ n \notin Ran
    /\ \A e \in SlotEdges : e.to = n => e.from \in Ran \cup {GraphInput}

\* The value a node reads from one of its input slots.
InputSlot(n, in) ==
    LET e == CHOOSE e \in SlotEdges : e.to = n /\ e.in = in
    IN  slots[<<e.from, e.out>>]

SetOutput(n, out, v) ==
    [k \in DOMAIN slots \cup {<<n, out>>} |->
        IF k = <<n, out>> THEN v ELSE slots[k]]

-----------------------------------------------------------------------------
(* Render passes recorded by the nodes.                                    *)

\* Snorm16 encoding of a float in [-1, 1] (round to nearest of f * 32767).
SnormMax == 32767

\* Variant of JfaClearTexel: green cleared to 0.0.
JfaClearTexelGreenZero == <<-SnormMax, 0>>

\* LoadOp::Clear(Color::RgbaLinear { red: -1.0, green: -1.0, .. }) on a
\* two-channel Snorm16 target.
JfaClearTexel == <<-SnormMax, -SnormMax>>

\* set_stencil_reference(!0): every bit set, of which the stencil test uses
\* the low 8 bits of the stencil aspect.
StencilBits == 8

StencilReference == Pow2(StencilBits) - 1

\* The mask pipeline renders with 4 samples per pixel.
MaskSampleCount == 4

Samples == 0..(MaskSampleCount - 1)

\* A draw item of the view's mask phase, as the samples its mesh covers:
\* a function from the pixels (texel indices) it touches to the non-empty
\* set of samples covered there.
ItemSamples(item, i) == IF i \in DOMAIN item THEN item[i] ELSE {}

ItemOf(f) == [i \in {j \in DOMAIN f : f[j] # {}} |-> f[i]]

\* Sample sets a mesh edge leaves in a pixel: none, the lower half, the
\* upper half, all.
LowerHalf == {s \in Samples : 2 * s < MaskSampleCount}

PartialCover == {LowerHalf, Samples \ LowerHalf, Samples}

\* Pixels up to which every coverage pattern is enumerated, and the longest
\* phase enumerated on a one-pixel target.
SmallPixels == 4

MaxItems == 2

RECURSIVE SeqsUpTo(_, _)
SeqsUpTo(S, n) ==
    IF n = 0 THEN {<<>>}
    ELSE LET shorter == SeqsUpTo(S, n - 1)
         IN  shorter \cup {Append(q, x) : q \in shorter, x \in S}

\* The phases (item lists) drawn on a w x h target: on one pixel every list
\* of up to MaxItems partial or full covers; on small targets one item with
\* every pattern of uncovered, half covered and covered pixels; on larger
\* ones one item covering a corner pixel.
PhaseItems(w, h) ==
    IF w * h = 1
    THEN SeqsUpTo({ItemOf(<<c>>) : c \in PartialCover}, MaxItems)
    ELSE IF w * h <= SmallPixels
    THEN {<<ItemOf(f)>> : f \in [1..(w * h) -> {{}, LowerHalf, Samples}]}
    ELSE {<<ItemOf([i \in {c} |-> Samples])>> : c \in {1, w * h}}

\* The colour target state and the multisample state of the pipelines the
\* mask, init and jump-flood passes draw with.
MeshMaskPipelineSpecialize ==
    [label |-> "mesh_stencil_pipeline", format |-> "R8Unorm", count |-> 4]

JfaInitPipelineFromWorld ==
    [label |-> "outline_jfa_init_pipeline", format |-> JFA_TEXTURE_FORMAT,
     count |-> 1]

JfaPipelineFromWorld ==
    [label |-> "outline_jfa_pipeline", format |-> JFA_TEXTURE_FORMAT,
     count |-> 1]

\* Variant of MaskPasses: the attachment is loaded instead of cleared.
MaskPassesLoad(r, has_phase) ==
    IF ~has_phase THEN <<>>
    ELSE << [kind |-> "mask",
             target |-> r.mask_multisample.id,
             resolve_target |-> r.mask_output.id,
             load |-> "Load"] >>

\* MeshMaskNode::run: one pass that clears the multisample target, draws
\* the items of the view's mask phase in order and resolves into
\* mask_output.
MaskPasses(r, has_phase) ==
    IF ~has_phase THEN <<>>
    ELSE << [kind |-> "mask",
             target |-> r.mask_multisample.id,
             resolve_target |-> r.mask_output.id,
             load |-> "Clear"] >>

\* Variant of JfaInitPasses: the colour attachment is loaded, not cleared.
JfaInitPassesLoad(r, stencil, rdy) ==
    IF "jfa_init" \notin rdy THEN <<>>
    ELSE << [kind |-> "jfa_init",
             target |-> r.jfa_primary_output.id,
             load |-> "Load",
             clear |-> JfaClearTexel,
             stencil |-> stencil,
             stencil_reference |-> StencilReference,
             dims |-> r.dimensions_buffer] >>

\* JfaInitNode::run
JfaInitPasses(r, stencil, rdy) ==
    IF "jfa_init" \notin rdy THEN <<>>
    ELSE << [kind |-> "jfa_init",
             target |-> r.jfa_primary_output.id,
             load |-> "Clear",
             clear |-> JfaClearTexel,
             stencil |-> stencil,
             stencil_reference |-> StencilReference,
             dims |-> r.dimensions_buffer] >>

\* JfaNode::run: the loop `for it in 0..=max_exp`.
\* Variant of max_exp: one pass fewer.
max_exp_short == 7

max_exp == 8

\* Variant of JfaExp: the distance table indexed by `it` instead of `exp`.
JfaExpAscending(it) == it

JfaExp(it) == max_exp - it

\* Variant of JfaTarget: the parity test inverted.
JfaTargetInverted(r, it) ==
    IF it % 2 = 0 THEN r.jfa_primary_output ELSE r.jfa_secondary_output

JfaTarget(r, it) ==
    IF it % 2 = 1 THEN r.jfa_primary_output ELSE r.jfa_secondary_output

\* Variant of JfaSrc: each target paired with the other target's bind group.
JfaSrcSwapped(r, it) ==
    IF it % 2 = 1 THEN r.jfa_secondary_bind_group ELSE r.jfa_primary_bind_group

JfaSrc(r, it) ==
    IF it % 2 = 1 THEN r.jfa_primary_bind_group ELSE r.jfa_secondary_bind_group

JfaPass(r, it) ==
    LET exp == JfaExp(it)
        ofs == r.jfa_distance_offsets[exp + 1]
    IN  [kind |-> "jfa",
         it |-> it,
         target |-> JfaTarget(r, it).id,
         clear |-> JfaClearTexel,
         src |-> JfaSrc(r, it).input,
         exp |-> exp,
         offset |-> ofs,
         dist |-> r.jfa_distance_buffer[ofs].dist,
         dims |-> r.dimensions_buffer]

JfaPasses(r, rdy) ==
    IF "jfa" \notin rdy THEN <<>>
    ELSE [i \in 1..(max_exp + 1) |-> JfaPass(r, i - 1)]

\* The texture behind camera.target.get_texture_view: owned by the host,
\* created before any texture of OutlineResources.
ColorTargetId == 0

\* The bind group OutlineNode::run binds at index 1: the one sampling the
\* final seed buffer, which the last jump-flood iteration wrote.
outline_src_bind_group(r) == r.secondary_outline_bind_group

\* Variant of OutlinePasses: the colour attachment is cleared on load.
OutlinePassesClear(r, node, has_target, rdy) ==
    IF ~has_target \/ "outline" \notin rdy THEN <<>>
    ELSE << [kind |-> "outline",
             target |-> ColorTargetId,
             load |-> "Clear",
             blend |-> node.pipeline.blend,
             src |-> outline_src_bind_group(r).input,
             dims |-> r.dimensions_buffer] >>

\* OutlineNode::run
OutlinePasses(r, node, has_target, rdy) ==
    IF ~has_target \/ "outline" \notin rdy THEN <<>>
    ELSE << [kind |-> "outline",
             target |-> ColorTargetId,
             load |-> "Load",
             blend |-> node.pipeline.blend,
             src |-> outline_src_bind_group(r).input,
             dims |-> r.dimensions_buffer] >>

-----------------------------------------------------------------------------
(* The composite pipeline and the OutlineNode.                             *)

\* Colour-target formats OutlineNode::new may be given; the first is
\* TextureFormat::bevy_default(), the one graph::outline passes.
BevyDefault == "Bgra8UnormSrgb"

TargetFormats == {BevyDefault, "Rgba8Uint", "Depth32Float", "Rgb9e5Ufloat"}

\* TextureFormat::describe: sample type, guaranteed allowed usages and
\* whether the format is filterable (and so blendable).
TextureFormatDescribe(format) ==
    CASE format = "Bgra8UnormSrgb" ->
            [sample_type |-> "Float", filterable |-> TRUE,
             allowed_usages |-> {"COPY_SRC", "COPY_DST", "TEXTURE_BINDING",
                                 "RENDER_ATTACHMENT"}]
      [] format = "Rgba8Uint" ->
            [sample_type |-> "Uint", filterable |-> FALSE,
             allowed_usages |-> {"COPY_SRC", "COPY_DST", "TEXTURE_BINDING",
                                 "STORAGE_BINDING", "RENDER_ATTACHMENT"}]
      [] format = "Depth32Float" ->
            [sample_type |-> "Depth", filterable |-> FALSE,
             allowed_usages |-> {"COPY_SRC", "COPY_DST", "TEXTURE_BINDING",
                                 "RENDER_ATTACHMENT"}]
      [] format = "Rgb9e5Ufloat" ->
            [sample_type |-> "Float", filterable |-> TRUE,
             allowed_usages |-> {"COPY_SRC", "COPY_DST", "TEXTURE_BINDING"}]

\* Variant of OutlinePipelineKeyNew: only depth formats are refused.
OutlinePipelineKeyNewDepthOnly(format) ==
    LET info == TextureFormatDescribe(format)
    IN  IF info.sample_type = "Depth" THEN None
        ELSE <<[format |-> format]>>

\* OutlinePipelineKey::new: an Option, <<>> for None and <<key>> for Some.
OutlinePipelineKeyNew(format) ==
    LET info == TextureFormatDescribe(format)
    IN  IF info.sample_type = "Depth" THEN None
        ELSE IF "RENDER_ATTACHMENT" \in info.allowed_usages
             THEN <<[format |-> format]>>
             ELSE None

\* Variant of OutlineBlend: the colour component replaces the destination.
OutlineBlendReplace ==
    [color |-> [src_factor |-> "One", dst_factor |-> "Zero",
                operation |-> "Add"],
     alpha |-> [src_factor |-> "One", dst_factor |-> "Zero",
                operation |-> "Add"]]

\* The BlendState of OutlinePipeline::specialize.
OutlineBlend ==
    [color |-> [src_factor |-> "SrcAlpha", dst_factor |-> "OneMinusSrcAlpha",
                operation |-> "Add"],
     alpha |-> [src_factor |-> "One", dst_factor |-> "Zero",
                operation |-> "Add"]]

\* OutlinePipeline::specialize: the colour target state of the descriptor.
OutlinePipelineSpecialize(key) ==
    [label |-> "jfa_outline_pipeline", format |-> key.format,
     blend |-> OutlineBlend, write_mask |-> "ALL"]

\* OutlineNode::new: the node, or None where expect() panics.
OutlineNodeNew(target_format) ==
    LET key == OutlinePipelineKeyNew(target_format)
    IN  IF key = None THEN None
        ELSE <<[pipeline |-> OutlinePipelineSpecialize(key[1])]>>

-----------------------------------------------------------------------------
(* Actions.                                                                *)

Pipelines == {"jfa_init", "jfa", "outline"}

InitCommon ==
    /\ res = FromWorld.res
    /\ cache = FromWorld.cache
    /\ next_id = FromWorld.next_id
    /\ ready = {}
    /\ run_order = <<>>
    /\ slots = <<>>
    /\ encoder = <<>>
    /\ gpu_pc = 0
    /\ calls = <<>>
    /\ color = None
    /\ created = {}

\* The plugin has initialised OutlineResources; the outline sub-graph is
\* not built yet.
Init ==
    /\ InitCommon
    /\ stage = "build"
    /\ outline_node = None
    /\ requested_format = None
    /\ window = None
    /\ tex = <<>>

\* graph::outline builds the OutlineNode for a colour-target format; the
\* expect() on the pipeline key panics when the key is None.
BuildGraph ==
    /\ stage = "build"
    /\ requested_format' \in TargetFormats
    /\ outline_node' = OutlineNodeNew(requested_format')
    /\ stage' = IF outline_node' = None THEN "panicked" ELSE "prepare"
    /\ UNCHANGED <<res, cache, next_id, window, ready, run_order, slots,
                   encoder, gpu_pc, tex, calls, color, created>>

\* PipelineCache finishes compiling a queued pipeline; the device rejects a
\* render pipeline whose colour target has a blend state and a format that
\* is not blendable.
CompilePipeline ==
    /\ stage = "prepare"
    /\ \E p \in Pipelines \ ready :
          /\ p = "outline" =>
                TextureFormatDescribe(
                    outline_node[1].pipeline.format).filterable
          /\ ready' = ready \cup {p}
    /\ UNCHANGED <<res, cache, next_id, window, stage, run_order, slots,
                   encoder, gpu_pc, tex, outline_node, calls, color,
                   requested_format, created>>

\* The Prepare stage: recreate_outline_resources with this frame's window.
RecreateWith(w) ==
    /\ stage = "prepare"
    /\ LET out == recreate_outline_resources(res, cache, next_id, w)
       IN  /\ out.next_id <= MaxTextureIds + 1
           /\ res' = out.res
           /\ cache' = out.cache
           /\ next_id' = out.next_id
           /\ created' = out.created
    /\ window' = w
    /\ calls' = IF calls = <<>> THEN <<w>> ELSE <<calls[Len(calls)], w>>
    /\ stage' = "graph"
    /\ UNCHANGED <<ready, run_order, slots, encoder, gpu_pc, outline_node,
                   color, requested_format>>

Recreate ==
    /\ \E w \in WindowSizes \cup {None} : RecreateWith(w)
    /\ UNCHANGED tex

RunMask ==
    /\ CanRun(MASK_PASS)
    /\ \E has_phase \in BOOLEAN :
          encoder' = encoder \o MaskPasses(res, has_phase)
    /\ slots' = SetOutput(MASK_PASS, "stencil", res.mask_multisample.id)
    /\ run_order' = Append(run_order, MASK_PASS)
    /\ UNCHANGED <<res, cache, next_id, window, ready, stage, gpu_pc, tex,
                   outline_node, calls, color,
                   requested_format, created>>

RunJfaInit ==
    /\ CanRun(JFA_INIT_PASS)
    /\ encoder' = encoder \o
          JfaInitPasses(res, InputSlot(JFA_INIT_PASS, "in_mask"), ready)
    /\ slots' = SetOutput(JFA_INIT_PASS, "out_jfa_init",
                          res.jfa_primary_output.id)
    /\ run_order' = Append(run_order, JFA_INIT_PASS)
    /\ UNCHANGED <<res, cache, next_id, window, ready, stage, gpu_pc, tex,
                   outline_node, calls, color,
                   requested_format, created>>

RunJfa ==
    /\ CanRun(JFA_PASS)
    /\ encoder' = encoder \o JfaPasses(res, ready)
    /\ slots' = SetOutput(JFA_PASS, "out_jump", res.jfa_secondary_output.id)
    /\ run_order' = Append(run_order, JFA_PASS)
    /\ UNCHANGED <<res, cache, next_id, window, ready, stage, gpu_pc, tex,
                   outline_node, calls, color,
                   requested_format, created>>

RunOutline ==
    /\ CanRun(OUTLINE_PASS)
    /\ \E has_target \in BOOLEAN :
          encoder' = encoder \o
              OutlinePasses(res, outline_node[1], has_target, ready)
    /\ slots' = SetOutput(OUTLINE_PASS, "out_view", "view_entity")
    /\ run_order' = Append(run_order, OUTLINE_PASS)
    /\ UNCHANGED <<res, cache, next_id, window, ready, stage, gpu_pc, tex,
                   outline_node, calls, color,
                   requested_format, created>>

\* The graph runner has run every node: the encoder is submitted.
Submit ==
    /\ stage = "graph"
    /\ Ran = Nodes
    /\ stage' = "submitted"
    /\ UNCHANGED <<res, cache, next_id, window, ready, run_order, slots,
                   encoder, gpu_pc, tex, outline_node, calls, color,
                   requested_format, created>>

\* The Cleanup stage: TextureCache::update; the next frame starts.
Cleanup ==
    /\ stage = "submitted"
    /\ cache' = TextureCacheUpdate(cache)
    /\ stage' = "prepare"
    /\ run_order' = <<>>
    /\ slots' = <<>>
    /\ encoder' = <<>>
    /\ gpu_pc' = 0
    /\ color' = None
    /\ UNCHANGED <<res, next_id, window, ready, outline_node, calls,
                   requested_format, created>>

EndFrame ==
    /\ Cleanup
    /\ UNCHANGED tex

Next ==
    \/ BuildGraph
    \/ CompilePipeline
    \/ Recreate
    \/ RunMask
    \/ RunJfaInit
    \/ RunJfa
    \/ RunOutline
    \/ Submit
    \/ EndFrame

Spec == Init /\ [][Next]_vars

\* Sizes an ExtractedWindow can hold: physical_width and physical_height
\* are u32 fields, which recreate_outline_resources reads as they are.
ExtractedSizes == {<<0, 300>>, <<2, 0>>, <<2, 3>>}

RecreateExtracted ==
    /\ \E w \in ExtractedSizes \cup {None} : RecreateWith(w)
    /\ UNCHANGED tex

NextExtracted ==
    \/ BuildGraph
    \/ CompilePipeline
    \/ RecreateExtracted
    \/ RunMask
    \/ RunJfaInit
    \/ RunJfa
    \/ RunOutline
    \/ Submit
    \/ EndFrame

SpecExtracted == Init /\ [][NextExtracted]_vars

-----------------------------------------------------------------------------
(* Texture contents and the execution of recorded passes.                  *)

Pixels(w, h) == (0..(w - 1)) \X (0..(h - 1))

\* Texels are stored row by row: the index of pixel p and the pixel of index i
\* in a texture of width w.
TexelIndex(p, w) == p[2] * w + p[1] + 1

TexelPixel(i, w) == <<(i - 1) % w, (i - 1) \div w>>

\* A texture created by the render device is zero-initialised. A
\* multisampled texture also holds, per pixel, the set of samples whose
\* value is the covered value; px is then the resolved value.
ZeroTexture(t) ==
    LET n == t.desc.width * t.desc.height
        px == [i \in 1..n |->
                  IF t.desc.format = JFA_TEXTURE_FORMAT THEN <<0, 0>> ELSE 0]
    IN  IF t.desc.sample_count = 1
        THEN [w |-> t.desc.width, h |-> t.desc.height, px |-> px]
        ELSE [w |-> t.desc.width, h |-> t.desc.height, px |-> px,
              samples |-> [i \in 1..n |-> {}], draws |-> <<>>]

\* The textures OutlineResources holds.
ResTextures(r) ==
    {r.mask_multisample, r.mask_output,
     r.jfa_primary_output, r.jfa_secondary_output}

\* Texture ids kept alive by OutlineResources, directly or by a bind group.
LiveIds(r) ==
    {t.id : t \in ResTextures(r)} \cup
    {r.jfa_init_bind_group.input, r.jfa_primary_bind_group.input,
     r.jfa_secondary_bind_group.input, r.primary_outline_bind_group.input,
     r.secondary_outline_bind_group.input}

\* Contents after the resources changed: new textures are zero-initialised,
\* textures no longer referenced are dropped.
TexturesAfter(r, old) ==
    [id \in LiveIds(r) |->
        IF id \in DOMAIN old THEN old[id]
        ELSE ZeroTexture(CHOOSE t \in ResTextures(r) : t.id = id)]

\* Rounded integer division of non-negative a by positive b.
RoundDiv(a, b) == (2 * a + b) \div (2 * b)

\* The resolved R8Unorm value of a pixel with k covered samples.
Resolve(k) == RoundDiv(255 * k, MaskSampleCount)

\* A seed coordinate is stored as the normalised position of the pixel centre
\* in the two Snorm16 channels.
Encode(p, w, h) ==
    << RoundDiv((2 * p[1] + 1) * SnormMax, 2 * w),
       RoundDiv((2 * p[2] + 1) * SnormMax, 2 * h) >>

\* The pixel a stored value denotes under the Dimensions uniform.
Decode(t, dims) ==
    << (t[1] * dims.width) \div SnormMax, (t[2] * dims.height) \div SnormMax >>

IsSentinel(t) == t = <<-SnormMax, -SnormMax>>

\* Variant of StencilTest: CompareFunction::Always.
StencilTestAlways(reference, value) == TRUE

\* Stencil test of the JFA init pipeline: CompareFunction::Equal with
\* read_mask !0 on the front face.
StencilTest(reference, value) == reference = value

\* Fragment stage of the JFA init pass: the fragment's own coordinate.
JfaInitFragment(p, w, h) == Encode(p, w, h)

\* Variant of ClampToEdge: AddressMode::Repeat.
AddressRepeat(x, n) == x % n

\* AddressMode::ClampToEdge with FilterMode::Nearest.
ClampToEdge(x, n) == IF x < 0 THEN 0 ELSE IF x > n - 1 THEN n - 1 ELSE x

SampleAt(t, p) ==
    t.px[TexelIndex(<<ClampToEdge(p[1], t.w), ClampToEdge(p[2], t.h)>>, t.w)]

SqDist(p, q) == (p[1] - q[1]) * (p[1] - q[1]) + (p[2] - q[2]) * (p[2] - q[2])

\* The 9 sample offsets of one jump-flood pass, in scan order.
JfaOffsets ==
    << <<-1, -1>>, <<0, -1>>, <<1, -1>>,
       <<-1,  0>>, <<0,  0>>, <<1,  0>>,
       <<-1,  1>>, <<0,  1>>, <<1,  1>> >>

\* Fragment stage of a jump-flood pass: among the 9 samples keep the
\* non-sentinel one nearest to p, the first such in scan order; the sentinel
\* when there is none.
RECURSIVE JfaBest(_, _, _, _, _, _)
JfaBest(i, best, p, src, dist, dims) ==
    IF i > Len(JfaOffsets) THEN best
    ELSE LET o == JfaOffsets[i]
             c == SampleAt(src, <<p[1] + o[1] * dist, p[2] + o[2] * dist>>)
             better ==
                 /\ ~IsSentinel(c)
                 /\ \/ IsSentinel(best)
                    \/ SqDist(p, Decode(c, dims)) < SqDist(p, Decode(best, dims))
         IN  JfaBest(i + 1, IF better THEN c ELSE best, p, src, dist, dims)

JfaFragment(p, src, dist, dims) ==
    JfaBest(1, <<-SnormMax, -SnormMax>>, p, src, dist, dims)

\* The samples covered after drawing items k.. onto the covered samples:
\* with no blend state and no depth test a draw overwrites the samples its
\* mesh covers with the covered value.
RECURSIVE DrawItems(_, _, _)
DrawItems(k, items, samples) ==
    IF k > Len(items) THEN samples
    ELSE DrawItems(k + 1, items,
                   [i \in DOMAIN samples |->
                       samples[i] \cup ItemSamples(items[k], i)])

\* The effect of one recorded pass on the texture contents. The mask pass
\* draws the items the view's phase holds; the multisample target keeps
\* them as the draws last executed on it.
ExecMask(pass, t, items) ==
    LET target == t[pass.target]
        start == IF pass.load = "Clear"
                 THEN [i \in DOMAIN target.samples |-> {}]
                 ELSE target.samples
        final == DrawItems(1, items, start)
        resolved == [i \in DOMAIN final |-> Resolve(Cardinality(final[i]))]
    IN  [t EXCEPT ![pass.target].samples = final,
                  ![pass.target].draws = items,
                  ![pass.target].px = resolved,
                  ![pass.resolve_target].px = resolved]

ExecJfaInit(pass, t) ==
    LET target == t[pass.target]
        stencil == t[pass.stencil]
    IN  [t EXCEPT ![pass.target].px =
            [i \in DOMAIN target.px |->
                LET p == TexelPixel(i, target.w)
                IN  IF StencilTest(pass.stencil_reference, SampleAt(stencil, p))
                    THEN JfaInitFragment(p, target.w, target.h)
                    ELSE IF pass.load = "Clear" THEN pass.clear
                    ELSE target.px[i]]]

ExecJfa(pass, t) ==
    LET target == t[pass.target]
        src == t[pass.src]
    IN  [t EXCEPT ![pass.target].px =
            [i \in DOMAIN target.px |->
                JfaFragment(TexelPixel(i, target.w), src, pass.dist, pass.dims)]]

\* Colour values are 8-bit normalised channels <<r, g, b, a>>.
UnormMax == 255

\* Outline styles bound at index 2: colour and weight in pixels.
OutlineStyles ==
    { [color |-> <<180, 162, 200, UnormMax>>, weight |-> 1],
      [color |-> <<UnormMax, 0, 0, 128>>, weight |-> 2] }

\* Contents the camera's earlier passes left in a colour target of n
\* pixels: one opaque colour, or values and alphas varying by pixel.
ColorInputs(n) ==
    { [i \in 1..n |-> <<100, 150, 200, UnormMax>>],
      [i \in 1..n |-> <<(i * 90) % 256, UnormMax - ((i * 90) % 256), 7,
                         (i * 128) % 384>>] }

\* Opacity of the outline at squared distance d2 from the nearest seed for
\* a style weight: full within weight - 1/2, zero from weight + 1/2 on, half
\* in the band between.
OutlineOpacity(d2, weight) ==
    IF 4 * d2 <= (2 * weight - 1) * (2 * weight - 1) THEN UnormMax
    ELSE IF 4 * d2 >= (2 * weight + 1) * (2 * weight + 1) THEN 0
    ELSE RoundDiv(UnormMax, 2)

\* Fragment stage of the composite pass: the style colour with its alpha
\* scaled by the opacity; a sentinel texel is infinitely far from any seed.
OutlineFragment(p, c, dims, style) ==
    LET opacity == IF IsSentinel(c) THEN 0
                   ELSE OutlineOpacity(SqDist(p, Decode(c, dims)), style.weight)
    IN  << style.color[1], style.color[2], style.color[3],
           RoundDiv(style.color[4] * opacity, UnormMax) >>

\* The value of a BlendFactor for source and destination colours.
BlendFactorValue(factor, src, dst) ==
    CASE factor = "Zero" -> 0
      [] factor = "One" -> UnormMax
      [] factor = "SrcAlpha" -> src[4]
      [] factor = "OneMinusSrcAlpha" -> UnormMax - src[4]

\* One channel blended by a BlendComponent with BlendOperation::Add, stored
\* to an 8-bit normalised target.
BlendChannel(component, s, d, src, dst) ==
    LET sum == RoundDiv(
                   s * BlendFactorValue(component.src_factor, src, dst) +
                   d * BlendFactorValue(component.dst_factor, src, dst),
                   UnormMax)
    IN  IF sum > UnormMax THEN UnormMax ELSE sum

Blend(state, src, dst) ==
    << BlendChannel(state.color, src[1], dst[1], src, dst),
       BlendChannel(state.color, src[2], dst[2], src, dst),
       BlendChannel(state.color, src[3], dst[3], src, dst),
       BlendChannel(state.alpha, src[4], dst[4], src, dst) >>

\* The colour target after the composite pass drew its full-screen triangle
\* on contents dst.
ExecOutline(pass, t, dst, style) ==
    LET seeds == t[pass.src]
    IN  [i \in DOMAIN dst |->
            LET loaded == IF pass.load = "Load" THEN dst[i]
                          ELSE <<0, 0, 0, 0>>
                p == TexelPixel(i, seeds.w)
            IN  Blend(pass.blend,
                      OutlineFragment(p, SampleAt(seeds, p), pass.dims, style),
                      loaded)]

\* Window sizes for which texture contents are tracked.
GridMaxWidth == 2

GridMaxHeight == 2

GpuSizes ==
    {s \in (1..GridMaxWidth) \X (1..GridMaxHeight) : s[1] * s[2] <= SmallPixels}

\* A window wider than the jump-flood passes can cross.
WideSizes == {<<513, 1>>}

InitGpu ==
    /\ InitCommon
    /\ stage = "prepare"
    /\ requested_format = BevyDefault
    /\ outline_node = OutlineNodeNew(requested_format)
    /\ window \in GpuSizes
    /\ tex = TexturesAfter(FromWorld.res, <<>>)

GpuRecreate ==
    /\ RecreateWith(window)
    /\ tex' = TexturesAfter(res', tex)

GpuExec ==
    /\ stage = "submitted"
    /\ gpu_pc < Len(encoder)
    /\ gpu_pc' = gpu_pc + 1
    /\ LET pass == encoder[gpu_pc + 1]
       IN  CASE pass.kind = "mask" ->
                  \E items \in PhaseItems(tex[pass.target].w,
                                          tex[pass.target].h) :
                      tex' = ExecMask(pass, tex, items)
             [] pass.kind = "jfa_init" -> tex' = ExecJfaInit(pass, tex)
             [] pass.kind = "jfa" -> tex' = ExecJfa(pass, tex)
             [] OTHER -> tex' = tex
    /\ LET pass == encoder[gpu_pc + 1]
       IN  IF pass.kind = "outline"
           THEN \E dst \in ColorInputs(Len(tex[pass.src].px)),
                   style \in OutlineStyles :
                   color' = [prior |-> dst, style |-> style,
                             px |-> ExecOutline(pass, tex, dst, style)]
           ELSE color' = color
    /\ UNCHANGED <<res, cache, next_id, window, ready, stage, run_order,
                   slots, encoder, outline_node, calls, requested_format,
                   created>>

\* The frame ends once the GPU has executed every submitted pass.
GpuEndFrame ==
    /\ gpu_pc = Len(encoder)
    /\ Cleanup
    /\ UNCHANGED tex

NextGpu ==
    \/ CompilePipeline
    \/ GpuRecreate
    \/ RunMask
    \/ RunJfaInit
    \/ RunJfa
    \/ RunOutline
    \/ Submit
    \/ GpuExec
    \/ GpuEndFrame

SpecGpu == InitGpu /\ [][NextGpu]_vars

InitWide ==
    /\ InitCommon
    /\ stage = "prepare"
    /\ requested_format = BevyDefault
    /\ outline_node = OutlineNodeNew(requested_format)
    /\ window \in WideSizes
    /\ tex = TexturesAfter(FromWorld.res, <<>>)

SpecWide == InitWide /\ [][NextGpu]_vars

-----------------------------------------------------------------------------
(* Properties of the recorded passes and of the resources.                 *)

JfaPassIndices == {i \in DOMAIN encoder : encoder[i].kind = "jfa"}

JfaInitPassIndices == {i \in DOMAIN encoder : encoder[i].kind = "jfa_init"}

\* The jump distances of the frame's jump-flood passes, in recording order.
JfaDistances ==
    LET pick(pass) == pass.kind = "jfa"
        passes == SelectSeq(encoder, pick)
    IN  [i \in DOMAIN passes |-> passes[i].dist]

\* The resolution installed in the resources.
InstalledWidth == res.jfa_primary_output.desc.width

InstalledHeight == res.jfa_primary_output.desc.height

\* The smallest power of two p with p >= m / 2.
SmallestPow2AtLeastHalf(m) ==
    Min({Pow2(k) : k \in {k \in 0..16 : 2 * Pow2(k) >= m}})

\* C1: in every recorded jump-flood iteration the texture sampled through
\* the source bind group differs from the render target, whatever resizes
\* preceded the frame.
C1_SrcDiffersFromTarget ==
    \A i \in JfaPassIndices : encoder[i].src # encoder[i].target

\* A jump-flood pass recorded on textures that replaced the initial ones.
C1_Witness ==
    \E i \in JfaPassIndices :
        /\ encoder[i].target \notin 1..4
        /\ encoder[i].src \notin 1..4
        /\ encoder[i].it = 1

\* C2: iteration 0 samples the texture the init pass rendered into (the
\* primary output), iteration i+1 samples the texture iteration i rendered
\* into, and the target is the secondary output on even iterations and the
\* primary output on odd ones.
C2_PingPongChain ==
    \A i \in JfaPassIndices :
        LET pass == encoder[i]
        IN  /\ pass.target = IF pass.it % 2 = 0
                             THEN res.jfa_secondary_output.id
                             ELSE res.jfa_primary_output.id
            /\ pass.it = 0 =>
                  /\ pass.src = res.jfa_primary_output.id
                  /\ \A j \in JfaInitPassIndices :
                        j < i /\ pass.src = encoder[j].target
            /\ pass.it > 0 =>
                  /\ i - 1 \in JfaPassIndices
                  /\ encoder[i - 1].it = pass.it - 1
                  /\ pass.src = encoder[i - 1].target

\* A full frame: the init pass and all jump-flood iterations are recorded
\* after a resize.
C2_Witness ==
    /\ JfaInitPassIndices # {}
    /\ Cardinality(JfaPassIndices) = max_exp + 1
    /\ res.jfa_primary_output.id \notin 1..4

\* C3 as stated: the first jump distance is at least the smallest power of
\* two >= max(W,H)/2 and the last is 1, for every installed resolution.
C3_Original ==
    JfaPassIndices # {} =>
        /\ JfaDistances[1] >=
              SmallestPow2AtLeastHalf(Max2(InstalledWidth, InstalledHeight))
        /\ JfaDistances[Len(JfaDistances)] = 1

\* C3 amended: the jump distances start at 256 = 2^max_exp and end at 1 for
\* every installed resolution; the first one is at least the smallest power
\* of two >= max(W,H)/2 exactly when max(W,H) <= 512.
C3_FixedSequence ==
    JfaPassIndices # {} =>
        LET m == Max2(InstalledWidth, InstalledHeight)
        IN  /\ JfaDistances[1] = 256
            /\ JfaDistances[Len(JfaDistances)] = 1
            /\ (JfaDistances[1] >= SmallestPow2AtLeastHalf(m)) <=> (m <= 512)

\* Jump-flood passes recorded at a resolution whose larger side is 512.
C3_Witness ==
    /\ JfaPassIndices # {}
    /\ Max2(InstalledWidth, InstalledHeight) = 512

\* C4: the nodes of the outline sub-graph run in the order mask_pass,
\* jfa_init_pass, jfa_pass, outline_pass, each exactly once per run.
GraphOrder == <<MASK_PASS, JFA_INIT_PASS, JFA_PASS, OUTLINE_PASS>>

C4_NodeOrder ==
    /\ Len(run_order) <= Len(GraphOrder)
    /\ \A i \in DOMAIN run_order : run_order[i] = GraphOrder[i]
    /\ stage = "submitted" => run_order = GraphOrder

\* A completed run of the sub-graph.
C4_Witness ==
    /\ stage = "submitted"
    /\ Len(run_order) = 4

\* C10: the mask multisample, mask resolve, primary seed and secondary seed
\* textures have one common width and height, the two seed textures have one
\* format, and the Dimensions uniform stores that width and height.
C10_SizesAgree ==
    LET d == res.jfa_primary_output.desc
    IN  /\ \A t \in ResTextures(res) :
              t.desc.width = d.width /\ t.desc.height = d.height
        /\ res.jfa_secondary_output.desc.format = d.format
        /\ res.dimensions_buffer.width = d.width
        /\ res.dimensions_buffer.height = d.height

\* A call without a primary window after a resize to a non-initial size.
C10_Witness ==
    /\ stage = "graph"
    /\ window = None
    /\ InstalledWidth = 513

\* C11: after every call of recreate_outline_resources, and so before any
\* pass of the frame is recorded, each bind group samples the texture the
\* resources currently hold: jfa_primary_bind_group the secondary output,
\* jfa_secondary_bind_group the primary output, jfa_init_bind_group the mask
\* output, and the two outline bind groups their own seed outputs.
C11_BindGroupsCurrent ==
    stage \in {"graph", "submitted"} =>
        /\ res.jfa_primary_bind_group.input = res.jfa_secondary_output.id
        /\ res.jfa_secondary_bind_group.input = res.jfa_primary_output.id
        /\ res.jfa_init_bind_group.input = res.mask_output.id
        /\ res.primary_outline_bind_group.input = res.jfa_primary_output.id
        /\ res.secondary_outline_bind_group.input = res.jfa_secondary_output.id
        /\ \A i \in JfaPassIndices :
              encoder[i].src \in {res.jfa_primary_output.id,
                                  res.jfa_secondary_output.id}

\* A call that replaced every texture, before any node of the frame ran.
C11_Witness ==
    /\ stage = "graph"
    /\ run_order = <<>>
    /\ window # None
    /\ \A t \in ResTextures(res) : t.id \notin 1..4

\* The kinds of render pass recorded in the frame's encoder.
RecordedKinds == {encoder[i].kind : i \in DOMAIN encoder}

PassKinds == {"mask", "jfa_init", "jfa", "outline"}

\* C12: once the sub-graph has run, either the mask, init, all jump-flood
\* and the composite passes are recorded, or no pass is recorded at all.
C12_AllOrNone ==
    stage = "submitted" =>
        \/ RecordedKinds = {}
        \/ /\ RecordedKinds = PassKinds
           /\ Cardinality(JfaPassIndices) = max_exp + 1

\* A format usable as the composite's colour target: it can be a render
\* attachment and it can be alpha-blended.
UsableTargetFormat(format) ==
    LET info == TextureFormatDescribe(format)
    IN  /\ info.sample_type # "Depth"
        /\ "RENDER_ATTACHMENT" \in info.allowed_usages
        /\ info.filterable

\* C14: OutlineNode::new builds the composite pipeline only for formats
\* that can be used as a render attachment and can be alpha-blended; for
\* every other format the key is None and no node exists.
C14_RefusesUnusable ==
    outline_node # None =>
        UsableTargetFormat(outline_node[1].pipeline.format)

\* C15: of the passes recorded in a frame only the composite pass attaches
\* the camera's colour target, and it attaches it with LoadOp::Load; the
\* mask, init and jump-flood passes render into, resolve into and test
\* against other textures.
C15_OnlyCompositeLoadsTarget ==
    \A i \in DOMAIN encoder :
        LET pass == encoder[i]
        IN  IF pass.kind = "outline"
            THEN pass.target = ColorTargetId /\ pass.load = "Load"
            ELSE /\ pass.target # ColorTargetId
                 /\ pass.kind = "mask" => pass.resolve_target # ColorTargetId
                 /\ pass.kind = "jfa_init" => pass.stencil # ColorTargetId

\* A frame in which all four nodes recorded their passes.
C15_Witness ==
    /\ stage = "submitted"
    /\ RecordedKinds = PassKinds

\* A step that is one call of recreate_outline_resources.
RecreateStep == stage = "prepare" /\ stage' = "graph"

TextureIds(r) ==
    <<r.mask_multisample.id, r.mask_output.id,
      r.jfa_primary_output.id, r.jfa_secondary_output.id>>

\* The call of this step has a window of the size the previous call had.
SameSizeAsPreviousCall ==
    /\ RecreateStep
    /\ Len(calls') = 2
    /\ calls'[2] # None
    /\ calls'[1] = calls'[2]

\* C19 as stated: a call whose window size equals the size the previous
\* call installed replaces no texture and leaves the Dimensions uniform.
C19_Original ==
    [][SameSizeAsPreviousCall =>
          /\ TextureIds(res') = TextureIds(res)
          /\ res'.dimensions_buffer = res.dimensions_buffer]_vars

\* C19 amended: a call whose window size equals that of the previous call
\* and is not the 1x1 size from_world allocates replaces no texture; and no
\* call at the installed size changes the Dimensions uniform.
C19_SameSizeKeeps ==
    [][RecreateStep =>
          /\ (SameSizeAsPreviousCall /\ calls'[2] # <<1, 1>>) =>
                TextureIds(res') = TextureIds(res)
          /\ (window' # None /\
              window' = <<InstalledWidth, InstalledHeight>>) =>
                res'.dimensions_buffer = res.dimensions_buffer]_vars

\* Two calls in a row with a 2x3 window.
C19_Witness ==
    /\ stage = "graph"
    /\ Len(calls) = 2
    /\ calls[1] = <<2, 3>>
    /\ calls[2] = <<2, 3>>

\* C22: OutlinePipelineKey::new returns None exactly for a format whose
\* sample type is Depth or whose guaranteed usages lack RENDER_ATTACHMENT,
\* and otherwise a key carrying the format it was given: OutlineNode::new
\* panics on the missing key exactly for those formats, and for every other
\* format builds the node with a pipeline of the format it was given.
C22_KeyNoneIffNotAttachable ==
    stage # "build" =>
        LET info == TextureFormatDescribe(requested_format)
            refused == \/ info.sample_type = "Depth"
                       \/ "RENDER_ATTACHMENT" \notin info.allowed_usages
        IN  /\ (outline_node = None) <=> refused
            /\ (stage = "panicked") <=> refused
            /\ ~refused => outline_node[1].pipeline.format = requested_format

\* graph::outline was given a colour format that cannot be a render
\* attachment, and panicked on the missing key.
C22_Witness ==
    /\ stage = "panicked"
    /\ TextureFormatDescribe(requested_format).sample_type # "Depth"
    /\ outline_node = None

\* x is a power of two (up to 2^16).
IsPow2(x) == \E k \in 0..16 : x = Pow2(k)

\* C21: when the jump-flood pipeline is ready, JfaNode::run records exactly
\* 9 passes with the distances 256, 128, .., 2, 1 in this order: each a
\* power of two, each smaller than the one before, each taken through an
\* index within the 16 entries of jfa_distance_offsets, entry exp of which
\* selects the uniform holding 2^exp.
C21_NineHalvingDistances ==
    (JFA_PASS \in Ran /\ "jfa" \in ready) =>
        /\ Len(JfaDistances) = 9
        /\ JfaDistances[1] = 256
        /\ JfaDistances[Len(JfaDistances)] = 1
        /\ \A i \in DOMAIN JfaDistances :
              /\ IsPow2(JfaDistances[i])
              /\ i > 1 => JfaDistances[i] < JfaDistances[i - 1]
              /\ i > 1 => 2 * JfaDistances[i] = JfaDistances[i - 1]
        /\ \A i \in JfaPassIndices :
              LET pass == encoder[i]
              IN  /\ pass.exp + 1 \in 1..16
                  /\ pass.exp + 1 \in DOMAIN res.jfa_distance_offsets
                  /\ pass.offset = res.jfa_distance_offsets[pass.exp + 1]
                  /\ res.jfa_distance_buffer[pass.offset].dist = Pow2(pass.exp)
                  /\ pass.dist = Pow2(pass.exp)

\* The jump-flood node has recorded its passes in a frame after a resize.
C21_Witness ==
    /\ JFA_PASS \in Ran
    /\ "jfa" \in ready
    /\ Len(JfaDistances) = 9
    /\ InstalledWidth = 512

\* The last jump-flood pass recorded in the frame.
LastJfaPass ==
    encoder[CHOOSE i \in JfaPassIndices : \A j \in JfaPassIndices : j <= i]

\* C23: the texture JfaNode::run publishes on its out_jump slot is the one
\* the last jump-flood iteration of that run rendered into, the secondary
\* output: the iteration count and the parity rule agree.
C23_OutJumpIsLastTarget ==
    (JFA_PASS \in Ran /\ JfaPassIndices # {}) =>
        /\ slots[<<JFA_PASS, "out_jump">>] = LastJfaPass.target
        /\ LastJfaPass.target = res.jfa_secondary_output.id
        /\ LastJfaPass.it = Cardinality(JfaPassIndices) - 1

\* The jump-flood node ran with its pipeline ready on seed textures that
\* replaced the initial ones.
C23_Witness ==
    /\ JFA_PASS \in Ran
    /\ JfaPassIndices # {}
    /\ OUTLINE_PASS \notin Ran
    /\ slots[<<JFA_PASS, "out_jump">>] \notin 1..4

OutlinePassIndices == {i \in DOMAIN encoder : encoder[i].kind = "outline"}

\* C24: in every frame the seed texture the composite pass samples through
\* bind group 1 is the texture the final jump-flood iteration of that frame
\* rendered into, never the other ping-pong texture, whatever resizes
\* preceded the frame.
C24_CompositeSamplesFinal ==
    \A i \in OutlinePassIndices :
        /\ JfaPassIndices # {}
        /\ encoder[i].src = LastJfaPass.target
        /\ encoder[i].src # res.jfa_primary_output.id

\* C26: every init, jump-flood and composite pass recorded in a frame is
\* preceded, in that frame's encoder, by the mask pass that clears the
\* multisample target and resolves into the coverage buffer: the coverage
\* they depend on is never left over from an earlier frame.
C26_CoverageDrawnThisFrame ==
    \A i \in DOMAIN encoder :
        encoder[i].kind \in {"jfa_init", "jfa", "outline"} =>
            \E j \in 1..(i - 1) :
                /\ encoder[j].kind = "mask"
                /\ encoder[j].load = "Clear"
                /\ encoder[j].target = res.mask_multisample.id
                /\ encoder[j].resolve_target = res.mask_output.id

\* C27: a call of recreate_outline_resources without a primary window
\* changes no field of OutlineResources: the Dimensions, the textures and
\* the bind groups are those of the previous frame, and none is rebuilt.
C27_NoWindowNoChange ==
    [][(RecreateStep /\ window' = None) =>
          /\ res' = res
          /\ created' = {}]_vars

\* A call without a primary window directly after a call that installed
\* the 2x3 size.
C27_Witness ==
    /\ stage = "graph"
    /\ calls = << <<2, 3>>, None >>
    /\ InstalledWidth = 2
    /\ InstalledHeight = 3

\* C28: a call of recreate_outline_resources builds jfa_init_bind_group
\* only if it replaced the mask_output texture by a different one; a call
\* that leaves mask_output the same texture builds no jfa_init_bind_group.
C28_InitBindGroupOnlyOnReplace ==
    [][RecreateStep =>
          ("jfa_init_bind_group" \in created' =>
              res'.mask_output.id # res.mask_output.id)]_vars

\* The texture of OutlineResources with this id.
ResTexture(id) == CHOOSE t \in ResTextures(res) : t.id = id

\* The pipeline a recorded mask, init or jump-flood pass draws with.
PassPipeline(pass) ==
    CASE pass.kind = "mask" -> MeshMaskPipelineSpecialize
      [] pass.kind = "jfa_init" -> JfaInitPipelineFromWorld
      [] pass.kind = "jfa" -> JfaPipelineFromWorld

Attachable(pipeline, t) ==
    /\ t.desc.format = pipeline.format
    /\ t.desc.sample_count = pipeline.count

C30_SizesAtLeastOne ==
    /\ \A i \in DOMAIN cache :
          cache[i].desc.width >= 1 /\ cache[i].desc.height >= 1
    /\ \A t \in ResTextures(res) : t.desc.width >= 1 /\ t.desc.height >= 1
    /\ res.dimensions_buffer.width >= 1
    /\ res.dimensions_buffer.height >= 1
    /\ res.dimensions_buffer.inv_width[2] # 0
    /\ res.dimensions_buffer.inv_height[2] # 0

-----------------------------------------------------------------------------
(* Properties of the texture contents.                                     *)

Sentinel == <<-SnormMax, -SnormMax>>

\* The pass the GPU executed last in this frame.
Executed(kinds) ==
    /\ stage = "submitted"
    /\ gpu_pc > 0
    /\ encoder[gpu_pc].kind \in kinds

LastPass == encoder[gpu_pc]

\* The init pass was executed earlier in this frame.
InitExecuted == \E j \in 1..gpu_pc : encoder[j].kind = "jfa_init"

\* A texel that denotes a pixel of a w x h buffer.
InBounds(t, w, h) ==
    /\ t[1] >= 0
    /\ t[2] >= 0
    /\ Decode(t, res.dimensions_buffer)[1] < w
    /\ Decode(t, res.dimensions_buffer)[2] < h

\* The coverage buffer the init pass reads.
Coverage == tex[res.mask_output.id]

FullyCovered == 255

CoveredIndices == {i \in DOMAIN Coverage.px : Coverage.px[i] = FullyCovered}

\* C5: after the init pass and after every jump-flood pass, every texel of
\* the buffer just written is the sentinel (-1,-1) or a coordinate inside the
\* buffer.
C5_TexelsValid ==
    Executed({"jfa_init", "jfa"}) =>
        LET t == tex[LastPass.target]
        IN  \A i \in DOMAIN t.px :
                t.px[i] = Sentinel \/ InBounds(t.px[i], t.w, t.h)

\* The init pass wrote sentinels and coordinates into one buffer.
C5_Witness ==
    /\ Executed({"jfa_init"})
    /\ LET t == tex[LastPass.target]
       IN  /\ \E i \in DOMAIN t.px : t.px[i] = Sentinel
           /\ \E i \in DOMAIN t.px :
                  t.px[i] # Sentinel /\ Decode(t.px[i], res.dimensions_buffer) # <<0, 0>>

\* The buffer a jump-flood pass reads: the one the previous pass wrote, the
\* primary output for iteration 0.
ReadBuffer ==
    IF LastPass.it = 0 THEN tex[res.jfa_primary_output.id]
    ELSE tex[encoder[gpu_pc - 1].target]

\* The 9 texels of buffer s around pixel p at distance d, addresses clamped
\* to the buffer.
NineSamples(s, p, d) ==
    {s.px[TexelIndex(<<IF x < 0 THEN 0 ELSE IF x >= s.w THEN s.w - 1 ELSE x,
                       IF y < 0 THEN 0 ELSE IF y >= s.h THEN s.h - 1 ELSE y>>,
                     s.w)] :
        x \in {p[1] - d, p[1], p[1] + d}, y \in {p[2] - d, p[2], p[2] + d}}

SingleSeedFrameDone ==
    /\ stage = "submitted"
    /\ gpu_pc = Len(encoder)
    /\ JfaInitPassIndices # {}
    /\ JfaPassIndices # {}
    /\ Cardinality(CoveredIndices) = 1

TheSeed == TexelPixel(CHOOSE i \in CoveredIndices : TRUE, Coverage.w)

\* The buffer the last jump-flood pass wrote.
FinalSeedBuffer ==
    tex[encoder[CHOOSE i \in JfaPassIndices :
                   \A j \in JfaPassIndices : j <= i].target]

HoldsSeed(i) ==
    /\ FinalSeedBuffer.px[i] # Sentinel
    /\ Decode(FinalSeedBuffer.px[i], res.dimensions_buffer) = TheSeed

Abs(x) == IF x < 0 THEN -x ELSE x

Chebyshev(p, q) == Max2(Abs(p[1] - q[1]), Abs(p[2] - q[2]))

\* C7 as stated: with a single covered pixel, every pixel of the final seed
\* buffer holds that pixel's coordinate, for every buffer size.
C7_Original ==
    SingleSeedFrameDone =>
        \A i \in DOMAIN FinalSeedBuffer.px : HoldsSeed(i)

\* The distance the passes 256, 128, .., 1 can carry a seed along one axis.
JfaReach == 511

\* C7 amended: with a single covered pixel, every pixel at most 511 pixels
\* away from it along each axis holds its coordinate in the final seed
\* buffer (every pixel of a buffer up to 512 x 512).
C7_SeedWithinReach ==
    SingleSeedFrameDone =>
        \A i \in DOMAIN FinalSeedBuffer.px :
            Chebyshev(TexelPixel(i, FinalSeedBuffer.w), TheSeed) <= JfaReach
                => HoldsSeed(i)

\* A finished single-seed frame with pixels exactly 511 away from the seed.
C7_Witness ==
    /\ SingleSeedFrameDone
    /\ \E i \in DOMAIN FinalSeedBuffer.px :
          Chebyshev(TexelPixel(i, FinalSeedBuffer.w), TheSeed) = JfaReach

\* C8: after the init pass, a pixel of the primary seed buffer holds its own
\* coordinate iff its coverage value equals 255, and the sentinel otherwise.
C8_InitSeeds ==
    Executed({"jfa_init"}) =>
        LET t == tex[res.jfa_primary_output.id]
            cov == tex[LastPass.stencil]
        IN  /\ LastPass.target = res.jfa_primary_output.id
            /\ \A i \in DOMAIN t.px :
                  IF cov.px[i] = FullyCovered
                  THEN /\ t.px[i] # Sentinel
                       /\ Decode(t.px[i], res.dimensions_buffer) = TexelPixel(i, t.w)
                  ELSE t.px[i] = Sentinel

\* The init pass ran on a buffer with a partially and a fully covered pixel.
C8_Witness ==
    /\ Executed({"jfa_init"})
    /\ LET cov == tex[LastPass.stencil]
       IN  /\ \E i \in DOMAIN cov.px : cov.px[i] = FullyCovered
           /\ \E i \in DOMAIN cov.px : cov.px[i] \notin {0, FullyCovered}

\* The draw items the mask pass just executed.
MaskDraws == tex[LastPass.target].draws

CompositeSrc(i) ==
    LET seeds == tex[LastPass.src]
        p == TexelPixel(i, seeds.w)
    IN  OutlineFragment(p, SampleAt(seeds, p), LastPass.dims, color.style)

SameRgb(a, b) == a[1] = b[1] /\ a[2] = b[2] /\ a[3] = b[3]

\* C13: in a finished frame, a node whose pipeline is not available has
\* recorded no pass, and the colour target's colours are as they were
\* before the outline sub-graph.
C13_SkippedPassNoOutline ==
    (stage = "submitted" /\ gpu_pc = Len(encoder)) =>
        \A p \in Pipelines \ ready :
            /\ p \notin RecordedKinds
            /\ color # None =>
                  \A i \in DOMAIN color.px : SameRgb(color.px[i], color.prior[i])

\* C16: when the seed buffer the composite samples holds the sentinel
\* everywhere, the composite pass leaves every pixel of the colour target
\* as it was.
C16_EmptyLeavesTarget ==
    (Executed({"outline"}) /\
     \A i \in DOMAIN tex[LastPass.src].px : tex[LastPass.src].px[i] = Sentinel)
        => color.px = color.prior

\* C17: each colour channel the composite pass stores is
\* src * src.a + dst * (1 - src.a), in 8-bit normalised arithmetic, for the
\* colour the fragment stage emitted and the target's prior contents.
C17_SourceOver ==
    Executed({"outline"}) =>
        \A i \in DOMAIN color.px : \A ch \in 1..3 :
            LET src == CompositeSrc(i)
                dst == color.prior[i]
            IN  color.px[i][ch] =
                    RoundDiv(src[ch] * src[4] + dst[ch] * (UnormMax - src[4]),
                             UnormMax)

\* The composite blended a partly transparent outline colour over a
\* different colour.
C17_Witness ==
    /\ Executed({"outline"})
    /\ \E i \in DOMAIN color.px :
          /\ CompositeSrc(i)[4] \in 1..(UnormMax - 1)
          /\ ~SameRgb(CompositeSrc(i), color.prior[i])
          /\ ~SameRgb(color.px[i], color.prior[i])

\* C20: the seed buffer the init pass leaves is a function of the coverage
\* it read and of the Dimensions alone: the encoded own coordinate where the
\* coverage is the fully covered value and the sentinel elsewhere, whatever
\* the primary seed texture held before the pass.
C20_InitDeterminedByCoverage ==
    Executed({"jfa_init"}) =>
        LET cov == tex[LastPass.stencil]
            w == LastPass.dims.width
            h == LastPass.dims.height
        IN  tex[LastPass.target].px =
                [i \in 1..(w * h) |->
                    IF cov.px[i] = FullyCovered
                    THEN Encode(TexelPixel(i, w), w, h)
                    ELSE Sentinel]

\* The init pass ran on a primary seed texture that an earlier frame's
\* jump flood had filled with seeds, and reset a pixel to the sentinel.
C20_Witness ==
    /\ Executed({"jfa_init"})
    /\ \E i \in DOMAIN tex[LastPass.target].px :
          /\ tex[LastPass.target].px[i] = Sentinel
          /\ tex[res.jfa_secondary_output.id].px[i] \notin {Sentinel, <<0, 0>>}
    /\ \E i \in DOMAIN tex[LastPass.target].px :
          tex[LastPass.target].px[i] # Sentinel

\* A step in which the GPU executes a jump-flood pass.
JfaExecStep ==
    /\ stage = "submitted"
    /\ gpu_pc' = gpu_pc + 1
    /\ encoder[gpu_pc'].kind = "jfa"

\* The seed values Seed Init stores for the covered pixels.
CoveredSeeds ==
    {Encode(TexelPixel(j, Coverage.w), Coverage.w, Coverage.h) :
        j \in CoveredIndices}

\* C25: in every jump-flood iteration, for every pixel p, the seed written
\* at p is no farther from p than the seed the iteration read at p, a pixel
\* that held a seed does not get the sentinel, and every non-sentinel value
\* written is the coordinate of a pixel Seed Init marked as covered.
C25_SeedsOnlyImprove ==
    [][JfaExecStep =>
          LET pass == encoder[gpu_pc']
              old == tex[pass.src]
              new == tex'[pass.target]
          IN  \A i \in DOMAIN new.px :
                  LET p == TexelPixel(i, new.w)
                  IN  /\ old.px[i] # Sentinel =>
                            /\ new.px[i] # Sentinel
                            /\ SqDist(p, Decode(new.px[i], pass.dims)) <=
                               SqDist(p, Decode(old.px[i], pass.dims))
                      /\ new.px[i] # Sentinel => new.px[i] \in CoveredSeeds
       ]_vars

====
